---- MODULE Spec2Model ----
(***************************************************************************)
(* MediaRecorder (source/core/mcu/media/MediaRecorder.cpp): producer       *)
(* threads deliver encoded frames through onFrame, one writer thread runs  *)
(* recordLoop, and the owning session calls close() and the destructor.    *)
(* Every action is one step between two accesses of shared fields.         *)
(***************************************************************************)
EXTENDS Integers, Sequences, FiniteSets, TLC

\* ---- bounds ----
NumProducers == 2          \* threads that call onFrame
MaxQueue == 2              \* frames queued or in delivery per track
MaxClose == 2              \* explicit close() calls by the owner
MaxElapsed == 100          \* milliseconds of wall-clock time since the start
NumSources == 2            \* frame dispatchers the owner can attach

Producers == 1..NumProducers
Kinds == {"video", "audio"}
Sources == 1..NumSources
\* frames are numbered per track in push order, modulo SeqMod
SeqMod == MaxQueue + 1

VARIABLES
    m_status,        \* "EMPTY" | "READY" | "ERROR"
    m_muxing,        \* stop flag of the writer loop
    m_context,       \* "NULL" | "NOFORMAT" (oformat == NULL) | "OK"
    m_videoStream,   \* 0 = nullptr, else ordinal of the stream in the context
    m_audioStream,
    m_contextMutex,  \* 0 = free, else the producer holding it
    m_videoQueue,    \* sequence of frame numbers
    m_audioQueue,
    pc,              \* per producer: position inside onFrame
    kind,            \* per producer: format of the frame being delivered
    wpc,             \* position of the writer thread in recordLoop
    opc,             \* position of the owner (close / destructor)
    crashed,         \* the process died on a null dereference
    \* ---- observation of collaborator calls ----
    streamsAdded,    \* successful avformat_new_stream calls per kind
    pushSeq,         \* per kind: number of pushFrame calls, mod SeqMod
    writeSeq,        \* per kind: number of av_write_frame calls, mod SeqMod
    lastWritten,     \* per kind: frame number of the last packet written
    headerWrites,    \* avformat_write_header calls
    headerFailed,    \* avformat_write_header returned < 0
    openFailed,      \* avio_open returned < 0
    trailerWrites,   \* av_write_trailer calls
    contextFrees,    \* avformat_free_context calls
    closeCalls,      \* explicit close() invocations
    closeReturns,    \* close() calls that returned
    reachedReady,    \* m_status has been READY
    videoArrived,    \* onFrame has been called with a video frame
    lateCall,        \* producers whose current call began after headerFailed
    \* ---- frame sources ----
    m_videoSource,   \* 0 = nullptr, else the attached video dispatcher
    m_audioSource,
    m_videoId,       \* -1, or the handle returned by addFrameConsumer
    m_audioId,
    consumers,       \* per source: the recorder's registrations <<handle, format>>
    attachCalls,     \* setMediaSource calls: 0, 1, or 2 for two and more
    detached,        \* unsetMediaSource has removed a registration
    \* ---- timestamps ----
    elapsed,         \* gettimeofday() - m_recordStartTime, in milliseconds
    pkt              \* the last AVPacket handed to av_write_frame

vars == <<m_status, m_muxing, m_context, m_videoStream, m_audioStream,
          m_contextMutex, m_videoQueue, m_audioQueue, pc, kind, wpc, opc,
          crashed, streamsAdded, pushSeq, writeSeq, lastWritten,
          headerWrites, headerFailed, openFailed, trailerWrites,
          contextFrees, closeCalls, closeReturns, reachedReady, videoArrived,
          lateCall, m_videoSource, m_audioSource, m_videoId, m_audioId,
          consumers, attachCalls, detached, elapsed, pkt>>

facadeVars == <<m_videoSource, m_audioSource, m_videoId, m_audioId,
                consumers, attachCalls, detached>>
ptsVars == <<elapsed, pkt>>

sharedVars == <<m_status, m_muxing, m_context, m_videoStream, m_audioStream,
                m_contextMutex>>
queueVars == <<m_videoQueue, m_audioQueue, pushSeq>>
writeObs == <<writeSeq, lastWritten>>
setupObs == <<headerWrites, headerFailed, openFailed, reachedReady>>
closeObs == <<trailerWrites, contextFrees, closeCalls, closeReturns>>

\* no packet has been written yet
NoPacket == [stream_index |-> -1, pts |-> 0, ms |-> 0]

\* MediaMuxer base class: state of a new recorder before init() runs
InitialStatus == "EMPTY"
InitialMuxing == FALSE

\* outcomes of init(): allocation failure, format-guess failure, success
InitOutcomes == {"alloc_failed", "guess_failed", "ok"}

init(outcome) ==
    /\ m_context = CASE outcome = "alloc_failed" -> "NULL"
                     [] outcome = "guess_failed" -> "NOFORMAT"
                     [] OTHER -> "OK"
    /\ m_muxing = IF outcome = "ok" THEN TRUE ELSE InitialMuxing
    /\ wpc = IF outcome = "ok" THEN "loop" ELSE "nothread"

Init ==
    /\ m_status = InitialStatus
    /\ \E outcome \in InitOutcomes : init(outcome)
    /\ m_videoStream = 0
    /\ m_audioStream = 0
    /\ m_contextMutex = 0
    /\ m_videoQueue = <<>>
    /\ m_audioQueue = <<>>
    /\ pc = [p \in Producers |-> "idle"]
    /\ kind = [p \in Producers |-> "none"]
    /\ opc = "idle"
    /\ crashed = FALSE
    /\ streamsAdded = [k \in Kinds |-> 0]
    /\ pushSeq = [k \in Kinds |-> 0]
    /\ writeSeq = [k \in Kinds |-> 0]
    /\ lastWritten = [k \in Kinds |-> 0]
    /\ headerWrites = 0
    /\ headerFailed = FALSE
    /\ openFailed = FALSE
    /\ trailerWrites = 0
    /\ contextFrees = 0
    /\ closeCalls = 0
    /\ closeReturns = 0
    /\ reachedReady = FALSE
    /\ videoArrived = FALSE
    /\ lateCall = {}
    /\ m_videoSource = 0
    /\ m_audioSource = 0
    /\ m_videoId = -1
    /\ m_audioId = -1
    /\ consumers = [s \in Sources |-> {}]
    /\ attachCalls = 0
    /\ detached = FALSE
    /\ elapsed = 0
    /\ pkt = NoPacket

\* ---- MediaFrameQueue (woogeen_base): FIFO, push and pop never block ----
pushFrame(queue, frame) == Append(queue, frame)
popFrame(queue) == Tail(queue)
frontFrame(queue) == Head(queue)

Queue(k) == IF k = "video" THEN m_videoQueue ELSE m_audioQueue
InFlight(k) == Cardinality({q \in Producers : pc[q] # "idle" /\ kind[q] = k})

\* ---- onFrame, on a producer thread ----
\* lines 161-162: a frame source calls onFrame(frame), frame.format is k
onFrame_enter(p, k) ==
    /\ ~crashed
    /\ opc # "dead"
    /\ pc[p] = "idle"
    /\ pc' = [pc EXCEPT ![p] = "L163"]
    /\ kind' = [kind EXCEPT ![p] = k]
    /\ videoArrived' = (videoArrived \/ k = "video")
    /\ lateCall' = IF headerFailed THEN lateCall \cup {p} ELSE lateCall
    /\ UNCHANGED <<facadeVars, ptsVars>>
    /\ UNCHANGED <<sharedVars, queueVars, writeObs, setupObs, closeObs,
                   wpc, opc, crashed, streamsAdded>>

\* a delivery is made while the track's queue has room
onFrame_call(p, k) ==
    /\ Len(Queue(k)) + InFlight(k) < MaxQueue
    /\ onFrame_enter(p, k)

\* a call that reads this as true returns without touching the queues
onFrame_rejects_Never == FALSE

\* line 163: the condition m_status == Context_ERROR
onFrame_rejects == m_status = "ERROR"

\* lines 163-164: if (m_status == Context_ERROR) return;
onFrame_status(p) ==
    /\ ~crashed
    /\ pc[p] = "L163"
    /\ IF onFrame_rejects
       THEN /\ pc' = [pc EXCEPT ![p] = "idle"]
            /\ kind' = [kind EXCEPT ![p] = "none"]
            /\ lateCall' = lateCall \ {p}
       ELSE /\ pc' = [pc EXCEPT ![p] = "L165"]
            /\ UNCHANGED <<kind, lateCall>>
    /\ UNCHANGED <<facadeVars, ptsVars>>
    /\ UNCHANGED <<sharedVars, queueVars, writeObs, setupObs, closeObs,
                   wpc, opc, crashed, streamsAdded, videoArrived>>

\* the audio track is created without waiting for the video track
NeedStream_Unordered(k) ==
    IF k = "video" THEN m_videoStream = 0 ELSE m_audioStream = 0

\* the test that decides whether onFrame creates the track of format k
NeedStream(k) ==
    IF k = "video" THEN m_videoStream = 0
    ELSE m_videoStream # 0 /\ m_audioStream = 0

\* lines 165-167 and 173-174: switch on the format, test the stream pointers
onFrame_switch(p) ==
    /\ ~crashed
    /\ pc[p] = "L165"
    /\ pc' = [pc EXCEPT ![p] = IF NeedStream(kind[p]) THEN "lock" ELSE "push"]
    /\ UNCHANGED <<sharedVars, queueVars, writeObs, setupObs, closeObs,
                   kind, wpc, opc, crashed, streamsAdded, videoArrived, lateCall,
                   facadeVars, ptsVars>>

\* lines 187 and 210: boost::lock_guard<boost::mutex> lock(m_contextMutex)
addStream_lock(p) ==
    /\ ~crashed
    /\ pc[p] = "lock"
    /\ m_contextMutex = 0
    /\ m_contextMutex' = p
    /\ pc' = [pc EXCEPT ![p] = "body"]
    /\ UNCHANGED <<m_status, m_muxing, m_context, m_videoStream, m_audioStream,
                   queueVars, writeObs, setupObs, closeObs,
                   kind, wpc, opc, crashed, streamsAdded, videoArrived, lateCall,
                   facadeVars, ptsVars>>

nb_streams == streamsAdded["video"] + streamsAdded["audio"]

\* lines 211-234: body of addVideoStream, then the lock is released
addVideoStream(p) ==
    /\ ~crashed
    /\ pc[p] = "body"
    /\ kind[p] = "video"
    /\ IF m_context # "OK"
       THEN \* m_context->oformat->video_codec on a null pointer
            /\ crashed' = TRUE
            /\ UNCHANGED <<m_status, m_videoStream, m_contextMutex, pc,
                           streamsAdded>>
       ELSE /\ crashed' = crashed
            /\ m_contextMutex' = 0
            /\ pc' = [pc EXCEPT ![p] = "push"]
            /\ \E created \in BOOLEAN :
                  IF created
                  THEN /\ streamsAdded' = [streamsAdded EXCEPT !["video"] = @ + 1]
                       /\ m_videoStream' = nb_streams + 1
                       /\ m_status' = m_status
                  ELSE /\ m_status' = "ERROR"
                       /\ UNCHANGED <<streamsAdded, m_videoStream>>
    /\ UNCHANGED <<m_muxing, m_context, m_audioStream, queueVars, writeObs,
                   setupObs, closeObs, kind, wpc, opc, videoArrived, lateCall,
                   facadeVars, ptsVars>>

\* lines 188-205: body of addAudioStream, then the lock is released
addAudioStream(p) ==
    /\ ~crashed
    /\ pc[p] = "body"
    /\ kind[p] = "audio"
    /\ IF m_context # "OK"
       THEN \* avformat_new_stream(NULL) or m_context->oformat->flags on null
            /\ crashed' = TRUE
            /\ UNCHANGED <<m_status, m_audioStream, m_contextMutex, pc,
                           streamsAdded>>
       ELSE /\ crashed' = crashed
            /\ m_contextMutex' = 0
            /\ pc' = [pc EXCEPT ![p] = "push"]
            /\ \E created \in BOOLEAN :
                  IF created
                  THEN /\ streamsAdded' = [streamsAdded EXCEPT !["audio"] = @ + 1]
                       /\ m_audioStream' = nb_streams + 1
                       /\ m_status' = m_status
                  ELSE /\ m_status' = "ERROR"
                       /\ UNCHANGED <<streamsAdded, m_audioStream>>
    /\ UNCHANGED <<m_muxing, m_context, m_videoStream, queueVars, writeObs,
                   setupObs, closeObs, kind, wpc, opc, videoArrived, lateCall,
                   facadeVars, ptsVars>>

NextSeq(n) == (n + 1) % SeqMod

\* lines 171 and 178: m_videoQueue->pushFrame / m_audioQueue->pushFrame, return
onFrame_push(p) ==
    /\ ~crashed
    /\ pc[p] = "push"
    /\ LET k == kind[p] IN
       /\ pushSeq' = [pushSeq EXCEPT ![k] = NextSeq(@)]
       /\ IF k = "video"
          THEN /\ m_videoQueue' = pushFrame(m_videoQueue, NextSeq(pushSeq[k]))
               /\ m_audioQueue' = m_audioQueue
          ELSE /\ m_audioQueue' = pushFrame(m_audioQueue, NextSeq(pushSeq[k]))
               /\ m_videoQueue' = m_videoQueue
    /\ pc' = [pc EXCEPT ![p] = "idle"]
    /\ kind' = [kind EXCEPT ![p] = "none"]
    /\ lateCall' = lateCall \ {p}
    /\ UNCHANGED <<facadeVars, ptsVars>>
    /\ UNCHANGED <<sharedVars, writeObs, setupObs, closeObs,
                   wpc, opc, crashed, streamsAdded, videoArrived>>

\* ---- recordLoop, on the writer thread ----
\* line 239: while (m_muxing)
recordLoop_while ==
    /\ ~crashed
    /\ wpc = "loop"
    /\ wpc' = IF m_muxing THEN "switch" ELSE "done"
    /\ UNCHANGED <<sharedVars, queueVars, writeObs, setupObs, closeObs,
                   pc, kind, opc, crashed, streamsAdded, videoArrived, lateCall,
                   facadeVars, ptsVars>>

\* line 240: switch (m_status)
recordLoop_switch ==
    /\ ~crashed
    /\ wpc = "switch"
    /\ wpc' = CASE m_status = "EMPTY" -> "empty"
                [] m_status = "READY" -> "drainA"
                [] OTHER -> "done"
    /\ UNCHANGED <<sharedVars, queueVars, writeObs, setupObs, closeObs,
                   pc, kind, opc, crashed, streamsAdded, videoArrived, lateCall,
                   facadeVars, ptsVars>>

\* lines 242-249 and 257-260: both streams present -> avio_open, which may
\* fail; otherwise usleep(1000); continue
recordLoop_empty ==
    /\ ~crashed
    /\ wpc = "empty"
    /\ IF m_audioStream # 0 /\ m_videoStream # 0
       THEN \E opened \in BOOLEAN :
               IF opened
               THEN /\ wpc' = "header"
                    /\ UNCHANGED <<m_status, openFailed>>
               ELSE /\ m_status' = "ERROR"
                    /\ openFailed' = TRUE
                    /\ wpc' = "done"
       ELSE /\ wpc' = "loop"
            /\ UNCHANGED <<m_status, openFailed>>
    /\ UNCHANGED <<m_muxing, m_context, m_videoStream, m_audioStream,
                   m_contextMutex, queueVars, writeObs, closeObs,
                   headerWrites, headerFailed, reachedReady,
                   pc, kind, opc, crashed, streamsAdded, videoArrived, lateCall,
                   facadeVars, ptsVars>>

\* lines 250-256: avformat_write_header, then READY or ERROR
recordLoop_header ==
    /\ ~crashed
    /\ wpc = "header"
    /\ headerWrites' = headerWrites + 1
    /\ \E written \in BOOLEAN :
          IF written
          THEN /\ m_status' = "READY"
               /\ reachedReady' = TRUE
               /\ wpc' = "drainA"
               /\ headerFailed' = headerFailed
          ELSE /\ m_status' = "ERROR"
               /\ headerFailed' = TRUE
               /\ wpc' = "done"
               /\ reachedReady' = reachedReady
    /\ UNCHANGED <<m_muxing, m_context, m_videoStream, m_audioStream,
                   m_contextMutex, queueVars, writeObs, closeObs, openFailed,
                   pc, kind, opc, crashed, streamsAdded, videoArrived, lateCall,
                   facadeVars, ptsVars>>

\* the popped audio frame is released without being written
writeAudioFrame_Skip(frame) == UNCHANGED writeObs

\* lines 298-316: writeAudioFrame hands one packet to av_write_frame
writeAudioFrame(frame) ==
    IF m_audioStream = 0
    THEN UNCHANGED writeObs
    ELSE /\ writeSeq' = [writeSeq EXCEPT !["audio"] = NextSeq(@)]
         /\ lastWritten' = [lastWritten EXCEPT !["audio"] = frame]

\* the popped video frame is released without being written
writeVideoFrame_Skip(frame) == UNCHANGED writeObs

\* lines 278-296: writeVideoFrame hands one packet to av_write_frame
writeVideoFrame(frame) ==
    IF m_videoStream = 0
    THEN UNCHANGED writeObs
    ELSE /\ writeSeq' = [writeSeq EXCEPT !["video"] = NextSeq(@)]
         /\ lastWritten' = [lastWritten EXCEPT !["video"] = frame]

\* the audio loop is left although frames are still queued
audioDrained_Early == TRUE

\* line 270: popFrame() returns nothing, the audio loop ends
audioDrained == m_audioQueue = <<>>

\* lines 270-271: while (mediaFrame = m_audioQueue->popFrame()) writeAudioFrame
recordLoop_drainAudio ==
    /\ ~crashed
    /\ wpc = "drainA"
    /\ IF audioDrained
       THEN /\ wpc' = "drainV"
            /\ UNCHANGED <<m_audioQueue, writeObs>>
       ELSE /\ m_audioQueue' = popFrame(m_audioQueue)
            /\ writeAudioFrame(frontFrame(m_audioQueue))
            /\ wpc' = wpc
    /\ UNCHANGED <<sharedVars, m_videoQueue, pushSeq, setupObs, closeObs,
                   pc, kind, opc, crashed, streamsAdded, videoArrived, lateCall,
                   facadeVars, ptsVars>>

\* lines 273-274: while (mediaFrame = m_videoQueue->popFrame()) writeVideoFrame
recordLoop_drainVideo ==
    /\ ~crashed
    /\ wpc = "drainV"
    /\ IF m_videoQueue = <<>>
       THEN /\ wpc' = "loop"
            /\ UNCHANGED <<m_videoQueue, writeObs>>
       ELSE /\ m_videoQueue' = popFrame(m_videoQueue)
            /\ writeVideoFrame(frontFrame(m_videoQueue))
            /\ wpc' = wpc
    /\ UNCHANGED <<sharedVars, m_audioQueue, pushSeq, setupObs, closeObs,
                   pc, kind, opc, crashed, streamsAdded, videoArrived, lateCall,
                   facadeVars, ptsVars>>

recordLoop ==
    \/ recordLoop_while
    \/ recordLoop_switch
    \/ recordLoop_empty
    \/ recordLoop_header
    \/ recordLoop_drainAudio
    \/ recordLoop_drainVideo

\* ---- close() and the destructor, on the owner's thread ----
\* line 140: m_muxing = false, then line 141 waits in m_thread.join()
close_begin ==
    /\ ~crashed
    /\ opc = "idle"
    /\ closeCalls < MaxClose
    /\ m_muxing' = FALSE
    /\ opc' = "join"
    /\ closeCalls' = closeCalls + 1
    /\ UNCHANGED <<m_status, m_context, m_videoStream, m_audioStream,
                   m_contextMutex, queueVars, writeObs, setupObs,
                   trailerWrites, contextFrees, closeReturns,
                   pc, kind, wpc, crashed, streamsAdded, videoArrived, lateCall,
                   facadeVars, ptsVars>>

\* the streams belong to the context: they dangle once it has been freed
StreamsDangling == contextFrees > 0 /\ (m_videoStream # 0 \/ m_audioStream # 0)

\* the trailer is written again on a context that was already released
close_writesTrailer_NoContextTest == m_audioStream # 0 /\ m_videoStream # 0

\* line 143: the condition under which close() calls av_write_trailer
close_writesTrailer ==
    m_audioStream # 0 /\ m_videoStream # 0 /\ m_context # "NULL"

\* lines 141-158: join returns, trailer, codec close, release of the context
close_finish ==
    /\ ~crashed
    /\ opc \in {"join", "dtor_join"}
    /\ wpc \in {"nothread", "done"}
    /\ trailerWrites' = IF close_writesTrailer
                        THEN trailerWrites + 1 ELSE trailerWrites
    /\ \E survives \in BOOLEAN :
          \* lines 146-150 read m_videoStream->codec of a freed stream when
          \* the context is already gone; line 153 reads oformat->flags
          /\ (~survives) => (StreamsDangling \/ m_context = "NOFORMAT")
          /\ survives => m_context # "NOFORMAT"
          /\ crashed' = ~survives
          /\ IF survives
             THEN /\ contextFrees' = IF m_context # "NULL"
                                     THEN contextFrees + 1 ELSE contextFrees
                  /\ m_context' = "NULL"
                  /\ opc' = IF opc = "join" THEN "idle" ELSE "dead"
                  /\ closeReturns' = closeReturns + 1
             ELSE UNCHANGED <<contextFrees, m_context, opc, closeReturns>>
    /\ UNCHANGED <<m_status, m_muxing, m_videoStream, m_audioStream,
                   m_contextMutex, queueVars, writeObs, setupObs, closeCalls,
                   pc, kind, wpc, streamsAdded, videoArrived, lateCall,
                   facadeVars, ptsVars>>

\* lines 72-76: ~MediaRecorder calls close() when m_muxing is still set
destroy ==
    /\ ~crashed
    /\ opc = "idle"
    /\ IF m_muxing
       THEN /\ m_muxing' = FALSE
            /\ opc' = "dtor_join"
       ELSE /\ opc' = "dead"
            /\ m_muxing' = m_muxing
    /\ UNCHANGED <<m_status, m_context, m_videoStream, m_audioStream,
                   m_contextMutex, queueVars, writeObs, setupObs, closeObs,
                   pc, kind, wpc, crashed, streamsAdded, videoArrived, lateCall,
                   facadeVars, ptsVars>>

onFrame(p) ==
    \/ \E k \in Kinds : onFrame_call(p, k)
    \/ onFrame_status(p)
    \/ onFrame_switch(p)
    \/ addStream_lock(p)
    \/ addVideoStream(p)
    \/ addAudioStream(p)
    \/ onFrame_push(p)

Next ==
    \/ \E p \in Producers : onFrame(p)
    \/ recordLoop
    \/ close_begin
    \/ close_finish
    \/ destroy

Spec == Init /\ [][Next]_vars

\* the steps of a delivery that has been made (everything but the call)
onFrame_run(p) ==
    \/ onFrame_status(p)
    \/ onFrame_switch(p)
    \/ addStream_lock(p)
    \/ addVideoStream(p)
    \/ addAudioStream(p)
    \/ onFrame_push(p)

\* every thread that can take a step keeps being scheduled; whether a frame
\* source delivers another frame is left open
LiveSpec ==
    /\ Spec
    /\ WF_vars(recordLoop)
    /\ WF_vars(close_finish)
    /\ \A p \in Producers : WF_vars(onFrame_run(p))

\* ======================= claims =======================

\* C1: in every interleaving of concurrent onFrame calls the video track
\* descriptor is created at most once and the audio track descriptor is
\* created at most once (each add*Stream adds at most one stream).
C1_TrackCreatedAtMostOnce ==
    /\ streamsAdded["video"] <= 1
    /\ streamsAdded["audio"] <= 1

\* C2: once the state is ERROR no packet is written afterwards and the
\* state never changes again.
C2_ErrorIsTerminal ==
    [][m_status = "ERROR" => (m_status' = "ERROR" /\ writeSeq' = writeSeq)]_vars

\* C3: the container header is written once only, and that write happens
\* only when both track descriptors exist and only while the state is EMPTY.
C3_HeaderOnceWhileEmpty ==
    [][headerWrites' # headerWrites =>
          /\ headerWrites = 0
          /\ m_videoStream # 0
          /\ m_audioStream # 0
          /\ m_status = "EMPTY"]_vars

\* C4: close() on a session whose state never reached READY writes no
\* trailer.
C4_NoTrailerUnlessReady ==
    (~reachedReady) => trailerWrites = 0

\* C5: for a session that reached READY the trailer is written exactly once
\* and the container handle is released exactly once, however often close()
\* is called and whether or not the destructor runs after a close().
C5_TrailerAndReleaseOnce ==
    /\ trailerWrites <= 1
    /\ contextFrees <= 1
    /\ (reachedReady /\ closeReturns >= 1) =>
          (trailerWrites = 1 /\ contextFrees = 1)

\* C5 witness: a READY session closed twice and then destroyed
C5_Witness ==
    reachedReady /\ closeCalls >= 2 /\ closeReturns >= 2 /\ opc = "dead"

IsPrefix(s, t) == Len(s) <= Len(t) /\ SubSeq(t, 1, Len(s)) = s

\* C6: the audio track descriptor never exists while the video track
\* descriptor does not; as long as no video frame has arrived, no audio
\* frame leaves the audio queue and no audio delivery returns without having
\* enqueued its frame.
C6_AudioWaitsForVideo ==
    /\ [](m_audioStream # 0 => m_videoStream # 0)
    /\ [][(~videoArrived) =>
            /\ IsPrefix(m_audioQueue, m_audioQueue')
            /\ \A p \in Producers :
                  (kind[p] = "audio" /\ pc[p] # "idle" /\ pc'[p] = "idle")
                     => Len(m_audioQueue') = Len(m_audioQueue) + 1]_vars

\* C6 witness: audio frames queued, no video frame has arrived, no audio track
C6_Witness ==
    /\ ~videoArrived
    /\ Len(m_audioQueue) = MaxQueue
    /\ m_audioStream = 0
    /\ wpc = "loop"

\* C7 (as stated): after a header-write failure every later onFrame call
\* enqueues its frame before it returns.
C7_LateCallsEnqueue ==
    [][\A p \in lateCall :
          (pc[p] # "idle" /\ pc'[p] = "idle") =>
             Len(Queue(kind[p]))' = Len(Queue(kind[p])) + 1]_vars

\* C7 (amended): after a header-write failure every later onFrame call
\* returns at the state test of line 163 without enqueueing its frame, and
\* the writer loop pops no frame from either queue.
C7_LateCallsRejected ==
    /\ [](\A p \in lateCall : pc[p] = "L163")
    /\ [][\A p \in lateCall :
             pc'[p] = "idle" =>
                (m_videoQueue' = m_videoQueue /\ m_audioQueue' = m_audioQueue)]_vars
    /\ [][headerFailed =>
             /\ IsPrefix(m_videoQueue, m_videoQueue')
             /\ IsPrefix(m_audioQueue, m_audioQueue')]_vars

\* C7 witness: the header write failed, frames are still queued, and a call
\* made after the failure is at the state test
C7_Witness ==
    /\ headerFailed
    /\ lateCall # {}
    /\ Len(m_audioQueue) + Len(m_videoQueue) > 0

SetupFailed == wpc = "nothread" \/ openFailed \/ headerFailed

\* C8: every setup failure (context allocation, format guess, file open,
\* header write) puts the state machine in ERROR, the writer loop is not
\* running and no packet is written for the session.
C8_SetupFailureIsError ==
    SetupFailed =>
       /\ m_status = "ERROR"
       /\ wpc \in {"nothread", "done"}
       /\ writeSeq = [k \in Kinds |-> 0]

\* frames start..start+Len(q)-1 (mod SeqMod) in this order
Consecutive(q, start) ==
    \A i \in 1..Len(q) : q[i] = (start + i) % SeqMod

\* C9: within one track the n-th packet handed to the container writer is
\* the n-th frame pushed, and the queue holds exactly the pushed frames not
\* yet written, in push order: no frame is reordered, duplicated or skipped.
C9_WrittenIsPrefixOfPushed ==
    \A k \in Kinds :
       /\ lastWritten[k] = writeSeq[k]
       /\ Consecutive(Queue(k), writeSeq[k])
       /\ pushSeq[k] = (writeSeq[k] + Len(Queue(k))) % SeqMod

\* C9 witness: packets of both tracks written while more frames are queued
C9_Witness ==
    /\ lastWritten["video"] = 2
    /\ lastWritten["audio"] = 1
    /\ Len(m_videoQueue) = MaxQueue
    /\ Len(m_audioQueue) > 0

\* C10: once close() has been invoked the writer thread eventually exits
\* and close() returns (or the process has died), from every recorder state
\* and whatever the producers keep delivering.
C10_CloseReturns ==
    (opc = "join") ~> (opc # "join" \/ crashed)

\* ---- presentation timestamps (writeVideoFrame / writeAudioFrame) ----
VideoTimeBaseDen == 30      \* stream->time_base = (AVRational){ 1, 30 }
AudioSampleRate == 8000     \* PCMU_8000_PT, time_base = { 1, c->sample_rate }
MsPerSecond == 1000

\* time_base.den of the stream a packet is tagged with
TimeBaseDen(stream_index) ==
    IF stream_index = 0 THEN VideoTimeBaseDen ELSE AudioSampleRate

\* lines 285-286 and 305-306: timestampToWrite / (1000 / time_base.den),
\* in C integer arithmetic on non-negative values
timestampToWrite(ms, den) == ms \div (MsPerSecond \div den)

\* line 306: writeAudioFrame reads m_videoStream->time_base.den
audioTimeBaseDen == VideoTimeBaseDen

\* a recorder in steady state: both streams exist, the header is written
RecorderReady ==
    /\ m_status = "READY"
    /\ m_muxing = TRUE
    /\ m_context = "OK"
    /\ m_videoStream = 1
    /\ m_audioStream = 2
    /\ m_contextMutex = 0
    /\ m_videoQueue = <<>>
    /\ m_audioQueue = <<>>
    /\ pc = [p \in Producers |-> "idle"]
    /\ kind = [p \in Producers |-> "none"]
    /\ wpc = "drainA"
    /\ opc = "idle"
    /\ crashed = FALSE
    /\ streamsAdded = [k \in Kinds |-> 1]
    /\ pushSeq = [k \in Kinds |-> 0]
    /\ writeSeq = [k \in Kinds |-> 0]
    /\ lastWritten = [k \in Kinds |-> 0]
    /\ headerWrites = 1
    /\ headerFailed = FALSE
    /\ openFailed = FALSE
    /\ trailerWrites = 0
    /\ contextFrees = 0
    /\ closeCalls = 0
    /\ closeReturns = 0
    /\ reachedReady = TRUE
    /\ videoArrived = TRUE
    /\ lateCall = {}
    /\ m_videoSource = 0
    /\ m_audioSource = 0
    /\ m_videoId = -1
    /\ m_audioId = -1
    /\ consumers = [s \in Sources |-> {}]
    /\ attachCalls = 0
    /\ detached = FALSE

recorderVars ==
    <<m_status, m_muxing, m_context, m_videoStream, m_audioStream,
      m_contextMutex, m_videoQueue, m_audioQueue, pc, kind, wpc, opc,
      crashed, streamsAdded, pushSeq, writeSeq, lastWritten, headerWrites,
      headerFailed, openFailed, trailerWrites, contextFrees, closeCalls,
      closeReturns, reachedReady, videoArrived, lateCall, facadeVars>>

PtsInit ==
    /\ RecorderReady
    /\ elapsed \in 0..MaxElapsed
    /\ pkt = NoPacket

\* wall-clock time passes between two writes
gettimeofday ==
    /\ elapsed < MaxElapsed
    /\ elapsed' = elapsed + 1
    /\ UNCHANGED <<pkt, recorderVars>>

\* lines 283-294: the packet writeVideoFrame hands to av_write_frame
writeVideoFrame_packet ==
    /\ m_videoStream # 0
    /\ pkt' = [stream_index |-> 0,
               pts |-> timestampToWrite(elapsed, VideoTimeBaseDen),
               ms |-> elapsed]
    /\ UNCHANGED <<elapsed, recorderVars>>

\* lines 303-314: the packet writeAudioFrame hands to av_write_frame
writeAudioFrame_packet ==
    /\ m_audioStream # 0
    /\ pkt' = [stream_index |-> 1,
               pts |-> timestampToWrite(elapsed, audioTimeBaseDen),
               ms |-> elapsed]
    /\ UNCHANGED <<elapsed, recorderVars>>

PtsNext ==
    \/ gettimeofday
    \/ writeVideoFrame_packet
    \/ writeAudioFrame_packet

PtsSpec == PtsInit /\ [][PtsNext]_vars

\* C11: the presentation timestamp of every written packet equals the
\* wall-clock time since the recording start, in milliseconds, scaled into
\* the time base of the packet's own track (1/30 for video, 1/sampleRate
\* for audio).
C11_PtsInOwnTimeBase ==
    pkt # NoPacket =>
       pkt.pts = (pkt.ms * TimeBaseDen(pkt.stream_index)) \div MsPerSecond

\* ---- Scenario A: 3 video frames, then 1 audio frame, then draining ----
ScenarioVideoFrames == 3

\* the four frames are delivered one after the other
ScenarioA_deliver(p) ==
    /\ \A q \in Producers : pc[q] = "idle"
    /\ m_status = "EMPTY"
    /\ m_audioQueue = <<>>
    /\ IF Len(m_videoQueue) < ScenarioVideoFrames
       THEN onFrame_enter(p, "video")
       ELSE onFrame_enter(p, "audio")

\* the writer loop polls, and starts on the container once the audio frame
\* is queued: every push comes before any draining
ScenarioA_recordLoop ==
    /\ (wpc = "empty" /\ m_videoStream # 0 /\ m_audioStream # 0)
          => m_audioQueue # <<>>
    /\ recordLoop

ScenarioANext ==
    \/ \E p \in Producers : ScenarioA_deliver(p)
    \/ \E p \in Producers : onFrame_run(p)
    \/ ScenarioA_recordLoop

ScenarioASpec ==
    /\ Init
    /\ [][ScenarioANext]_vars
    /\ WF_vars(ScenarioA_recordLoop)
    /\ \A p \in Producers : WF_vars(onFrame_run(p))

ScenarioA_AllWritten ==
    /\ m_videoQueue = <<>>
    /\ m_audioQueue = <<>>
    /\ pushSeq["video"] = ScenarioVideoFrames % SeqMod
    /\ lastWritten["video"] = ScenarioVideoFrames % SeqMod
    /\ lastWritten["audio"] = 1

\* C12 (as stated): in Scenario A the audio track is created only after the
\* video track, all 4 frames are eventually written, and the audio frame is
\* written only after the three video frames of the same drain cycle.
C12_VideoBeforeAudio ==
    /\ [](m_audioStream # 0 => m_videoStream # 0)
    /\ (m_status = "READY") ~> ScenarioA_AllWritten
    /\ [][writeSeq'["audio"] # writeSeq["audio"] => m_videoQueue = <<>>]_vars

\* C12 (amended): in Scenario A the audio track is created only after the
\* video track, all 4 frames are eventually written once the header is
\* written, and the audio frame is written before the three video frames
\* of the same drain cycle.
C12_AudioBeforeVideo ==
    /\ [](m_audioStream # 0 => m_videoStream # 0)
    /\ (m_status = "READY") ~> ScenarioA_AllWritten
    /\ [][writeSeq'["video"] # writeSeq["video"] =>
             (m_audioQueue = <<>> /\ lastWritten["audio"] = 1)]_vars
    /\ [][writeSeq'["audio"] # writeSeq["audio"] =>
             Len(m_videoQueue) = ScenarioVideoFrames]_vars

\* C12 witness: the four frames of the scenario have been written
C12_Witness ==
    /\ m_status = "READY"
    /\ ScenarioA_AllWritten
    /\ wpc = "loop"

\* C13: in each writer-loop iteration in READY the audio queue is emptied
\* before any video frame is popped: a video frame is popped only in the
\* video loop, and the video loop is entered only from the audio loop when
\* the audio queue is empty. The order never depends on timestamps.
C13_AudioDrainedFirst ==
    /\ [][Len(m_videoQueue') < Len(m_videoQueue) => wpc = "drainV"]_vars
    /\ [][Len(m_audioQueue') < Len(m_audioQueue) => wpc = "drainA"]_vars
    /\ [][(wpc # "drainV" /\ wpc' = "drainV") =>
             (wpc = "drainA" /\ m_audioQueue = <<>>)]_vars

\* C13 witness: the audio queue has been emptied, the video loop starts
\* with frames queued, and an audio packet has been written
C13_Witness ==
    /\ wpc = "drainV"
    /\ Len(m_videoQueue) = MaxQueue
    /\ m_audioQueue = <<>>
    /\ lastWritten["audio"] = 2

\* C17: a packet is handed to the container writer only while the state is
\* READY, and no frame is popped from either queue while it is EMPTY or
\* ERROR.
C17_WriteOnlyWhileReady ==
    [][(\/ writeSeq' # writeSeq
        \/ Len(m_videoQueue') < Len(m_videoQueue)
        \/ Len(m_audioQueue') < Len(m_audioQueue)) => m_status = "READY"]_vars

\* the writer thread is between avio_open and the end of a packet write
WriterMutatesContainer == wpc \in {"header", "drainA", "drainV"}

\* C18: track creation on a producer thread never runs concurrently with
\* the writer thread's mutation of the container.
C18_TrackCreationSerialized ==
    m_contextMutex # 0 => ~WriterMutatesContainer

\* C19: the container handle is never used after close() has released it:
\* no producer is inside addVideoStream or addAudioStream, which dereference
\* m_context, once the context has been freed.
C19_NoUseAfterRelease ==
    contextFrees > 0 => \A p \in Producers : pc[p] # "body"

\* C20: once a video frame and an audio frame are queued, the recorder
\* leaves EMPTY for READY unless a collaborator call fails, the session is
\* closed or the process dies.
C20_BothDeliveredReachesReady ==
    (m_status = "EMPTY" /\ m_videoQueue # <<>> /\ m_audioQueue # <<>>)
       ~> (m_status # "EMPTY" \/ ~m_muxing \/ opc # "idle" \/ crashed)

\* ---- FrameDispatcher (woogeen_base): consumer registrations of a source ----
\* the handle the source gives to a new consumer
NewHandle(regs) ==
    CHOOSE i \in 0..Cardinality(regs) :
       /\ \A r \in regs : r[1] # i
       /\ \A j \in 0..(i - 1) : \E r \in regs : r[1] = j

addFrameConsumer(regs, format) == regs \cup {<<NewHandle(regs), format>>}
removeFrameConsumer(regs, id) == {r \in regs : r[1] # id}

\* the earlier registration is left in place
hasRegistration_Never(source, id) == FALSE

\* lines 80, 83, 98, 104: the test m_videoSource && m_videoId != -1
hasRegistration(source, id) == source # 0 /\ id # -1

\* only the video registration is removed
Unregistered_VideoOnly ==
    IF hasRegistration(m_videoSource, m_videoId)
    THEN [consumers EXCEPT ![m_videoSource] = removeFrameConsumer(@, m_videoId)]
    ELSE consumers

\* lines 80-84 and 98-105: the registrations after the removals
Unregistered ==
    LET afterVideo ==
           IF hasRegistration(m_videoSource, m_videoId)
           THEN [consumers EXCEPT ![m_videoSource] =
                    removeFrameConsumer(@, m_videoId)]
           ELSE consumers
    IN  IF hasRegistration(m_audioSource, m_audioId)
        THEN [afterVideo EXCEPT ![m_audioSource] =
                 removeFrameConsumer(@, m_audioId)]
        ELSE afterVideo

\* lines 78-94: setMediaSource(videoSource, audioSource); a source may
\* refuse the consumer and return -1
setMediaSource(videoSource, audioSource) ==
    /\ ~crashed
    /\ opc = "idle"
    /\ \E videoAdded \in BOOLEAN, audioAdded \in BOOLEAN :
          LET videoId == IF videoAdded THEN NewHandle(Unregistered[videoSource])
                         ELSE -1
              withVideo ==
                 IF videoAdded
                 THEN [Unregistered EXCEPT ![videoSource] =
                          addFrameConsumer(@, "video")]
                 ELSE Unregistered
              audioId == IF audioAdded THEN NewHandle(withVideo[audioSource])
                         ELSE -1
          IN  /\ m_videoSource' = videoSource
              /\ m_audioSource' = audioSource
              /\ m_videoId' = videoId
              /\ m_audioId' = audioId
              /\ attachCalls' = IF attachCalls < 2 THEN attachCalls + 1 ELSE 2
              /\ detached' = detached
              /\ consumers' =
                    IF audioAdded
                    THEN [withVideo EXCEPT ![audioSource] =
                             addFrameConsumer(@, "audio")]
                    ELSE withVideo
    /\ UNCHANGED <<sharedVars, queueVars, writeObs, setupObs, closeObs,
                   pc, kind, wpc, opc, crashed, streamsAdded, videoArrived,
                   lateCall, ptsVars>>

\* lines 96-109: unsetMediaSource()
unsetMediaSource ==
    /\ ~crashed
    /\ opc = "idle"
    /\ consumers' = Unregistered
    /\ detached' = (detached \/ consumers # Unregistered)
    /\ attachCalls' = attachCalls
    /\ m_videoSource' = 0
    /\ m_videoId' = -1
    /\ m_audioSource' = 0
    /\ m_audioId' = -1
    /\ UNCHANGED <<sharedVars, queueVars, writeObs, setupObs, closeObs,
                   pc, kind, wpc, opc, crashed, streamsAdded, videoArrived,
                   lateCall, ptsVars>>

\* the owner's calls, with frames delivered by one thread
FacadeProducer == 1

FacadeNext ==
    \/ \E v \in Sources, a \in Sources : setMediaSource(v, a)
    \/ unsetMediaSource
    \/ onFrame(FacadeProducer)
    \/ recordLoop
    \/ close_begin
    \/ close_finish
    \/ destroy

FacadeSpec == Init /\ [][FacadeNext]_vars

Registrations(format) ==
    UNION {{<<s, r[1]>> : r \in {x \in consumers[s] : x[2] = format}} :
              s \in Sources}

\* C14: after any sequence of setMediaSource and unsetMediaSource calls the
\* recorder is registered with at most one video source and at most one
\* audio source, and a registration that exists is the one the recorder
\* holds the handle of.
C14_AtMostOneSourcePerType ==
    /\ Registrations("video") \subseteq {<<m_videoSource, m_videoId>>}
    /\ Registrations("audio") \subseteq {<<m_audioSource, m_audioId>>}

\* C14 witness: attached to the second source after an earlier attachment,
\* both registrations in place
C14_Witness ==
    /\ attachCalls = 2
    /\ ~detached
    /\ m_videoSource = 2
    /\ m_audioSource = 2
    /\ consumers[1] = {}
    /\ consumers[2] = {<<0, "video">>, <<1, "audio">>}
    /\ m_status = "READY"

\* C15: once the recorder is destroyed no source holds a registration of it.
C15_NoRegistrationAfterDestroy ==
    opc = "dead" => \A s \in Sources : consumers[s] = {}

\* a step of unsetMediaSource on a recorder that has a source
UnsetStep ==
    /\ m_videoSource # 0 \/ m_audioSource # 0
    /\ m_videoSource' = 0
    /\ m_audioSource' = 0

\* C16: unsetMediaSource leaves the writer loop, the recorder state, both
\* track descriptors and both queues unchanged; it only removes the two
\* registrations and clears the source handles. The writer loop reads none
\* of the fields the call changes, so frames queued before the detach are
\* drained as they would have been without it.
C16_DetachOnlyUnregisters ==
    [][UnsetStep =>
          /\ UNCHANGED <<wpc, m_status, m_muxing, m_context, m_videoStream,
                         m_audioStream, m_contextMutex, m_videoQueue,
                         m_audioQueue, writeSeq, lastWritten, pc, kind, opc>>
          /\ \A s \in Sources : consumers'[s] = {}
          /\ m_videoId' = -1
          /\ m_audioId' = -1]_vars

\* C16 witness: sources detached while frames were queued, and the queues
\* have been emptied by the writer loop, which is still running
C16_Witness ==
    /\ detached
    /\ m_videoSource = 0
    /\ m_status = "READY"
    /\ m_videoQueue = <<>>
    /\ m_audioQueue = <<>>
    /\ lastWritten["video"] = 2
    /\ wpc = "loop"
    /\ m_muxing

====
